---- MODULE Spec2Model ----
(***************************************************************************)
(* Serper MCP server (src/server.py): six search tools that each forward   *)
(* one POST to google.serper.dev and reshape the answer, and one static    *)
(* info tool.  The model keeps the process environment, the outbound       *)
(* request counter and, per tool invocation, the handler's local state.    *)
(***************************************************************************)
EXTENDS Integers, Sequences, FiniteSets, TLC

(* ------------------------------ bounds -------------------------------- *)

\* optional parameters a caller supplies in one invocation
MaxSupplied == 1
\* keys in one upstream JSON object
MaxKeys == 2
\* elements in one upstream result list
MaxList == 2
\* vertical invocations that reach the network in one behaviour
MaxCalls == 2
\* tool invocations in flight at once (SpecConc)
NumInv == 2

(* --------------------------- Python values ---------------------------- *)

\* Optional values: None is <<>>, a value x is <<x>>.
None == <<>>
Some(x) == <<x>>
Opt(S) == {None} \cup {Some(x) : x \in S}

\* a test `is not None` in place of truthiness: "" would count as present
TruthyNotNone(o) == o # None

\* Python truthiness of an Optional[str]: None and "" are falsy.
Truthy(o) == o # None /\ o[1] # ""

\* JSON values of an upstream body: a type tag and, for a list, its elements.
JNull == [t |-> "null", v |-> <<>>]
JObject == [t |-> "object", v |-> <<>>]
JString == [t |-> "string", v |-> <<>>]
JList(n) == [t |-> "list", v |-> [i \in 1..n |-> i]]
EmptyList == JList(0)

\* len(x): defined for lists, dicts and strings; TypeError for None.
HasLen(j) == j.t # "null"
PyLen(j) == Len(j.v)

(* ------------------------------- tools -------------------------------- *)

Verticals ==
    {"search_google", "search_images", "search_news",
     "search_places", "search_shopping", "search_videos"}
InfoTool == "get_search_info"
Tools == Verticals \cup {InfoTool}

\* the parameters of each handler's signature besides q
OptParams(tool) ==
    CASE tool = "search_google" ->
            {"num", "location", "gl", "hl", "autocorrect", "page"}
      [] tool = "search_images" -> {"num", "location", "gl", "hl"}
      [] tool = "search_news" -> {"num", "location", "gl", "hl", "tbs"}
      [] tool = "search_places" -> {"location", "gl", "hl"}
      [] tool = "search_shopping" -> {"num", "location", "gl", "hl"}
      [] tool = "search_videos" -> {"num", "location", "gl", "hl"}
      [] OTHER -> {}

StrParams == {"location", "gl", "hl", "tbs"}

\* the endpoint each handler posts to
Url(tool) ==
    CASE tool = "search_google" -> "https://google.serper.dev/search"
      [] tool = "search_images" -> "https://google.serper.dev/images"
      [] tool = "search_news" -> "https://google.serper.dev/news"
      [] tool = "search_places" -> "https://google.serper.dev/places"
      [] tool = "search_shopping" -> "https://google.serper.dev/shopping"
      [] tool = "search_videos" -> "https://google.serper.dev/videos"

\* requests.post(..., timeout=30)
TimeoutSeconds == 30

\* the key of the upstream body each handler reads its list from
UpstreamKey(tool) ==
    CASE tool = "search_google" -> "organic"
      [] tool = "search_images" -> "images"
      [] tool = "search_news" -> "news"
      [] tool = "search_places" -> "places"
      [] tool = "search_shopping" -> "shopping"
      [] tool = "search_videos" -> "videos"

\* the key of a success result that carries the list
ResultKey(tool) ==
    IF tool = "search_google" THEN "organic_results" ELSE UpstreamKey(tool)

\* the empty-list key of an error result
FailKey(tool) ==
    IF tool = "search_google" THEN "results" ELSE UpstreamKey(tool)

(* --------------------------- caller inputs ---------------------------- *)

Queries == {"", "cat"}
SuppliedNum == {0, 3}
SuppliedPage == {2}
SuppliedStr(p) ==
    CASE p = "location" -> {"", "Austin"}
      [] p = "gl" -> {"", "us"}
      [] p = "hl" -> {"", "en"}
      [] p = "tbs" -> {"", "qdr:d"}

\* keyword arguments of one call: q, and each optional parameter omitted
\* (None) or supplied
AllKwargs(tool) ==
    CASE tool = "search_google" ->
            [q : Queries, num : Opt(SuppliedNum),
             location : Opt(SuppliedStr("location")),
             gl : Opt(SuppliedStr("gl")), hl : Opt(SuppliedStr("hl")),
             autocorrect : Opt(BOOLEAN), page : Opt(SuppliedPage)]
      [] tool = "search_news" ->
            [q : Queries, num : Opt(SuppliedNum),
             location : Opt(SuppliedStr("location")),
             gl : Opt(SuppliedStr("gl")), hl : Opt(SuppliedStr("hl")),
             tbs : Opt(SuppliedStr("tbs"))]
      [] tool = "search_places" ->
            [q : Queries, location : Opt(SuppliedStr("location")),
             gl : Opt(SuppliedStr("gl")), hl : Opt(SuppliedStr("hl"))]
      [] tool \in {"search_images", "search_shopping", "search_videos"} ->
            [q : Queries, num : Opt(SuppliedNum),
             location : Opt(SuppliedStr("location")),
             gl : Opt(SuppliedStr("gl")), hl : Opt(SuppliedStr("hl"))]
      [] OTHER -> {<<>>}

Supplied(kw) == {p \in DOMAIN kw \ {"q"} : kw[p] # None}

Kwargs(tool) ==
    {kw \in AllKwargs(tool) : Cardinality(Supplied(kw)) <= MaxSupplied}

\* every call a caller can make: a tool and its keyword arguments
Calls == UNION {{<<tool, kw>> : kw \in Kwargs(tool)} : tool \in Tools}

(* ------------------------- payload construction ----------------------- *)

\* the value a parameter has inside the handler: the supplied one or the
\* signature's default
Local(kw, p) ==
    CASE p = "num" -> IF kw[p] = None THEN 10 ELSE kw[p][1]
      [] p = "autocorrect" -> IF kw[p] = None THEN TRUE ELSE kw[p][1]
      [] p = "page" -> IF kw[p] = None THEN 1 ELSE kw[p][1]
      [] OTHER -> kw[p]

\* the literal dict each handler starts its payload with
BasePayload(tool, kw) ==
    CASE tool = "search_google" ->
            [q |-> kw.q, num |-> Local(kw, "num"),
             autocorrect |-> Local(kw, "autocorrect"),
             page |-> Local(kw, "page")]
      [] tool = "search_places" -> [q |-> kw.q]
      [] OTHER -> [q |-> kw.q, num |-> Local(kw, "num")]

\* the `if x: payload["x"] = x` lines of each handler
GuardedParams(tool) ==
    IF tool = "search_news"
    THEN {"location", "gl", "hl", "tbs"}
    ELSE {"location", "gl", "hl"}

\* variant: unset optional fields sent as empty values
BuildPayloadNulls(tool, kw) ==
    [p \in GuardedParams(tool) |->
        IF Local(kw, p) = None THEN "" ELSE Local(kw, p)[1]]
    @@ BasePayload(tool, kw)

\* variant: an empty q left out of the payload
BuildPayloadDropsEmptyQ(tool, kw) ==
    LET set == {p \in GuardedParams(tool) : Truthy(Local(kw, p))}
        full == [p \in set |-> Local(kw, p)[1]] @@ BasePayload(tool, kw)
    IN  IF kw.q = "" THEN [p \in DOMAIN full \ {"q"} |-> full[p]] ELSE full

\* variant: `if x is not None` guards, so empty strings are sent
BuildPayloadKeepsEmpty(tool, kw) ==
    LET set == {p \in GuardedParams(tool) : Local(kw, p) # None}
    IN  [p \in set |-> Local(kw, p)[1]] @@ BasePayload(tool, kw)

\* the payload a handler posts: its literal dict plus every truthy guarded
\* parameter
BuildPayload(tool, kw) ==
    LET set == {p \in GuardedParams(tool) : Truthy(Local(kw, p))}
    IN  [p \in set |-> Local(kw, p)[1]] @@ BasePayload(tool, kw)

(* -------------------------- upstream outcomes -------------------------- *)

\* what requests.post meets: a transport fault, the 30 s timeout, or an HTTP
\* response with a status and a body
Statuses == {200, 304, 404, 500}

ListKeys == {UpstreamKey(t) : t \in Verticals}

\* the keys an upstream object may carry for a call of `tool`: its own list
\* key, an "error" key and, for web search, the three side sections, for the
\* other verticals the web-search list key
BodyKeys(tool) ==
    {UpstreamKey(tool), "error"}
    \cup (IF tool = "search_google"
          THEN {"knowledgeGraph", "peopleAlsoAsk", "relatedSearches"}
          ELSE {"organic"})

KeyVals(tool, k) ==
    CASE k = UpstreamKey(tool) -> {JNull} \cup {JList(n) : n \in 0..MaxList}
      [] k = "knowledgeGraph" -> {JNull, JObject}
      [] k = "peopleAlsoAsk" -> {JNull, JList(1)}
      [] k = "error" -> {JString}
      [] OTHER -> {JList(1)}

JVals == {JNull, JObject, JString} \cup {JList(n) : n \in 0..MaxList}

Objects(tool) ==
    UNION {{o \in [S -> JVals] : \A k \in S : o[k] \in KeyVals(tool, k)} :
             S \in {T \in SUBSET BodyKeys(tool) : Cardinality(T) <= MaxKeys}}

NoObject == [k \in {} |-> JNull]

\* a body is text that is not JSON, a JSON array, or a JSON object
Bodies(tool) ==
    {[t |-> "unparseable", o |-> NoObject], [t |-> "array", o |-> NoObject]}
    \cup {[t |-> "object", o |-> o] : o \in Objects(tool)}

ErrorBodies ==
    {[t |-> "unparseable", o |-> NoObject],
     [t |-> "object", o |-> [k \in {"error"} |-> JString]]}

Responses(tool) ==
    {[kind |-> "ConnectionError", status |-> 0,
      body |-> [t |-> "unparseable", o |-> NoObject]],
     [kind |-> "Timeout", status |-> 0,
      body |-> [t |-> "unparseable", o |-> NoObject]]}
    \cup {[kind |-> "http", status |-> s, body |-> b] :
            s \in {x \in Statuses : x < 400}, b \in Bodies(tool)}
    \cup {[kind |-> "http", status |-> s, body |-> b] :
            s \in {x \in Statuses : x >= 400}, b \in ErrorBodies}

\* every outcome the upstream can give a vertical's request
Outcomes == UNION {{<<tool, r>> : r \in Responses(tool)} : tool \in Verticals}

(* ------------------------ the handler after the POST ------------------ *)

\* response.raise_for_status(): HTTPError for 4xx and 5xx only
RaisesForStatus(status) == 400 <= status /\ status < 600

\* data.get(key, default)
DictGet(o, k, default) == IF k \in DOMAIN o THEN o[k] ELSE default

\* the exception the try block raises for an upstream outcome, "" for none
Raised(tool, r) ==
    CASE r.kind # "http" -> r.kind
      [] r.kind = "http" /\ RaisesForStatus(r.status) -> "HTTPError"
      [] r.kind = "http" /\ ~RaisesForStatus(r.status)
            /\ r.body.t = "unparseable" -> "JSONDecodeError"
      [] r.kind = "http" /\ ~RaisesForStatus(r.status)
            /\ r.body.t = "array" -> "AttributeError"
      [] r.kind = "http" /\ ~RaisesForStatus(r.status) /\ r.body.t = "object"
            /\ ~HasLen(DictGet(r.body.o, UpstreamKey(tool), EmptyList))
            -> "TypeError"
      [] OTHER -> ""

\* variant: the list cut to its first element
ReshapeTruncated(tool, kw, data) ==
    LET l == DictGet(data, UpstreamKey(tool), EmptyList)
        n == IF Len(l.v) > 1 THEN 1 ELSE Len(l.v)
        cut == [t |-> l.t, v |-> SubSeq(l.v, 1, n)]
    IN  IF tool = "search_google"
        THEN [query |-> kw.q,
              organic_results |-> cut,
              knowledge_graph |-> DictGet(data, "knowledgeGraph", JNull),
              people_also_ask |-> DictGet(data, "peopleAlsoAsk", EmptyList),
              related_searches |-> DictGet(data, "relatedSearches", EmptyList),
              total_results |-> PyLen(cut)]
        ELSE (ResultKey(tool) :> cut)
             @@ [query |-> kw.q, count |-> PyLen(cut)]

\* the dict a handler returns when nothing was raised
Reshape(tool, kw, data) ==
    IF tool = "search_google"
    THEN [query |-> kw.q,
          organic_results |-> DictGet(data, "organic", EmptyList),
          knowledge_graph |-> DictGet(data, "knowledgeGraph", JNull),
          people_also_ask |-> DictGet(data, "peopleAlsoAsk", EmptyList),
          related_searches |-> DictGet(data, "relatedSearches", EmptyList),
          total_results |-> PyLen(DictGet(data, "organic", EmptyList))]
    ELSE (ResultKey(tool) :> DictGet(data, UpstreamKey(tool), EmptyList))
         @@ [query |-> kw.q,
             count |-> PyLen(DictGet(data, UpstreamKey(tool), EmptyList))]

\* the dict of the `except Exception as e` clause; str(e) is modelled by the
\* exception's class
ErrorResult(tool, msg) == (FailKey(tool) :> EmptyList) @@ [error |-> msg]

MissingKeyMessage == "Missing SERPER_API_KEY environment variable"

\* what the handler returns for an upstream outcome
Finish(tool, kw, r) ==
    IF Raised(tool, r) # ""
    THEN ErrorResult(tool, Raised(tool, r))
    ELSE Reshape(tool, kw, r.body.o)

\* get_search_info's literal dict, by its keys and its list of tool names
SearchInfo ==
    [search_types |->
        <<"search_google", "search_images", "search_news",
          "search_places", "search_shopping", "search_videos">>,
     features |-> {"geotargeting", "languages", "time_filters", "pagination"},
     cost |-> "$0.002 per search",
     note |-> "All searches return structured JSON data"]

(* ------------------------------- state -------------------------------- *)

VARIABLES
    env,         \* SERPER_API_KEY in the process environment, None when unset
    mainApiKey,  \* api_key as __main__ read it at process start
    posts,       \* requests.post calls made so far
    invoked,     \* vertical invocations that found a credential so far
    inv          \* per invocation slot: the handler's position (pc) and
                 \* locals (tool, kw, api_key, sent, resp, result), with
                 \* cred, the environment's value when it was invoked, and
                 \* nposts, the requests it has made

vars == <<env, mainApiKey, posts, invoked, inv>>

EnvValues == {None, Some(""), Some("k1"), Some("k2")}
\* the values the server is started with
StartValues == {None, Some(""), Some("k1")}

Idle == [pc |-> "idle"]

\* variant: the credential cached at process start
GetenvAtStartup == mainApiKey

\* os.getenv("SERPER_API_KEY") inside a handler

Getenv == env

Init ==
    /\ env \in StartValues
    /\ mainApiKey = env
    /\ posts = 0
    /\ invoked = 0
    /\ inv = [i \in 1..1 |-> Idle]

InitConc ==
    /\ env \in StartValues
    /\ mainApiKey = env
    /\ posts = 0
    /\ invoked = 0
    /\ inv = [i \in 1..NumInv |-> Idle]

(* ------------------------------ actions ------------------------------- *)

\* variant: the payload kept in a module-level dict that a request in flight
\* still owns
RequestShared(tool, kw, key) ==
    LET others == {j \in DOMAIN inv : inv[j].pc = "waiting"}
    IN  [url |-> Url(tool), key |-> key[1],
         content_type |-> "application/json",
         json |-> IF others = {}
                  THEN BuildPayload(tool, kw)
                  ELSE inv[CHOOSE j \in others : TRUE].sent.json,
         timeout |-> TimeoutSeconds]

\* the request a handler hands to requests.post
Request(tool, kw, key) ==
    [url |-> Url(tool), key |-> key[1],
     content_type |-> "application/json",
     json |-> BuildPayload(tool, kw), timeout |-> TimeoutSeconds]

\* a tool is invoked and runs until it returns or blocks in requests.post:
\* get_search_info returns its dict; a vertical reads the credential, returns
\* the missing-credential error or builds the payload and posts it
Invoke(i, tool, kw) ==
    /\ inv[i].pc = "idle"
    /\ IF tool = InfoTool
       THEN /\ inv' = [inv EXCEPT ![i] =
                [pc |-> "done", tool |-> tool, kw |-> kw,
                 nposts |-> 0, result |-> SearchInfo]]
            /\ UNCHANGED <<posts, invoked>>
       ELSE IF ~Truthy(Getenv)
       THEN /\ inv' = [inv EXCEPT ![i] =
                [pc |-> "done", tool |-> tool, kw |-> kw, cred |-> env,
                 api_key |-> Getenv, nposts |-> 0,
                 result |-> ErrorResult(tool, MissingKeyMessage)]]
            /\ UNCHANGED <<posts, invoked>>
       ELSE /\ invoked < MaxCalls
            /\ inv' = [inv EXCEPT ![i] =
                [pc |-> "waiting", tool |-> tool, kw |-> kw, cred |-> env,
                 api_key |-> Getenv, nposts |-> 1,
                 sent |-> Request(tool, kw, Getenv)]]
            /\ posts' = posts + 1
            /\ invoked' = invoked + 1
    /\ UNCHANGED <<env, mainApiKey>>

\* variant: a failed request is posted once more before the error is returned
DeliverRetry(i, r) ==
    /\ inv[i].pc = "waiting"
    /\ inv' = [inv EXCEPT ![i] =
            [pc |-> "done", tool |-> @.tool, kw |-> @.kw, cred |-> @.cred,
             api_key |-> @.api_key,
             nposts |-> IF Raised(@.tool, r) # "" THEN @.nposts + 1
                        ELSE @.nposts,
             sent |-> @.sent, resp |-> r,
             result |-> Finish(@.tool, @.kw, r)]]
    /\ posts' = IF Raised(inv[i].tool, r) # "" THEN posts + 1 ELSE posts
    /\ UNCHANGED <<env, mainApiKey, invoked>>

\* requests.post ends with outcome r and the handler runs to its return
Deliver(i, r) ==
    /\ inv[i].pc = "waiting"
    /\ inv' = [inv EXCEPT ![i] =
            [pc |-> "done", tool |-> @.tool, kw |-> @.kw, cred |-> @.cred,
             api_key |-> @.api_key, nposts |-> @.nposts, sent |-> @.sent,
             resp |-> r, result |-> Finish(@.tool, @.kw, r)]]
    /\ UNCHANGED <<env, mainApiKey, posts, invoked>>

\* the caller takes the result; the invocation's locals are discarded
Return(i) ==
    /\ inv[i].pc = "done"
    /\ inv' = [inv EXCEPT ![i] = Idle]
    /\ UNCHANGED <<env, mainApiKey, posts, invoked>>

\* SERPER_API_KEY is set, unset or replaced in os.environ while the server runs
SetEnv(v) ==
    /\ v # env
    /\ env' = v
    /\ UNCHANGED <<mainApiKey, posts, invoked, inv>>

Next ==
    \/ \E i \in DOMAIN inv, c \in Calls : Invoke(i, c[1], c[2])
    \/ \E i \in DOMAIN inv, o \in Outcomes :
          /\ inv[i].pc = "waiting"
          /\ inv[i].tool = o[1]
          /\ Deliver(i, o[2])
    \/ \E i \in DOMAIN inv : Return(i)

Spec == Init /\ [][Next]_vars

\* concurrent invocations while the environment changes, over a smaller
\* input set
ConcTools == {"search_images", "search_places", InfoTool}
ConcCalls ==
    {c \in Calls :
        /\ c[1] \in ConcTools
        /\ Supplied(c[2]) = {}
        /\ c[1] \in Verticals => c[2].q = "cat"}
ConcOutcomes ==
    {o \in Outcomes :
        /\ o[1] \in ConcTools
        /\ \/ o[2].kind = "Timeout"
           \/ /\ o[2].kind = "http" /\ o[2].status = 200
              /\ o[2].body.t = "object"
              /\ DOMAIN o[2].body.o = {UpstreamKey(o[1])}
              /\ o[2].body.o[UpstreamKey(o[1])] = JList(MaxList)}

NextConc ==
    \/ \E i \in DOMAIN inv, c \in ConcCalls : Invoke(i, c[1], c[2])
    \/ \E i \in DOMAIN inv, o \in ConcOutcomes :
          /\ inv[i].pc = "waiting"
          /\ inv[i].tool = o[1]
          /\ Deliver(i, o[2])
    \/ \E i \in DOMAIN inv : Return(i)
    \/ \E v \in EnvValues : SetEnv(v)

SpecConc == InitConc /\ [][NextConc]_vars

(* ------------------------------ claims -------------------------------- *)

Slots == DOMAIN inv
IsVertical(i) == inv[i].pc # "idle" /\ inv[i].tool \in Verticals
HasSent(i) == inv[i].pc # "idle" /\ "sent" \in DOMAIN inv[i]
HasResp(i) == inv[i].pc = "done" /\ "resp" \in DOMAIN inv[i]

\* C1 as stated: with the credential unset or empty, every tool invocation,
\* the info tool included, returns a result with an `error` key and no
\* outbound request is made.  (Under Spec the environment never changes, so
\* env is the credential at the time of every invocation.)
C1_Original ==
    env \in {None, Some("")} =>
        /\ posts = 0
        /\ \A i \in Slots :
              inv[i].pc = "done" =>
                  "error" \in DOMAIN inv[i].result /\ inv[i].nposts = 0

\* C1 amended: with the credential unset or empty, every vertical invocation
\* returns a result with an `error` key and an empty list and makes no
\* outbound request; the info tool makes no request either but returns its
\* static catalogue, which has no `error` key.
C1_Amended ==
    env \in {None, Some("")} =>
        /\ posts = 0
        /\ \A i \in Slots :
              inv[i].pc # "idle" =>
                  /\ inv[i].pc = "done"
                  /\ inv[i].nposts = 0
                  /\ ~HasSent(i)
                  /\ inv[i].tool \in Verticals =>
                        /\ "error" \in DOMAIN inv[i].result
                        /\ "query" \notin DOMAIN inv[i].result
                  /\ inv[i].tool = "get_search_info" =>
                        /\ "error" \notin DOMAIN inv[i].result
                        /\ "search_types" \in DOMAIN inv[i].result

C1_Witness ==
    \E i \in Slots :
        /\ env = Some("")
        /\ inv[i].pc = "done"
        /\ inv[i].tool = "search_news"
        /\ "error" \in DOMAIN inv[i].result
        /\ posts = 0

\* C2: for every vertical and every failed upstream outcome (non-2xx status,
\* transport fault, timeout, body that is not JSON) the result has an `error`
\* key, its result list is absent or empty, and it carries no query or count;
\* for images it is exactly {error, images: []}.
C2_FailClosed ==
    \A i \in Slots :
        HasResp(i) =>
            LET r == inv[i].resp
                res == inv[i].result
                failure ==
                    \/ r.kind # "http"
                    \/ r.status < 200
                    \/ r.status > 299
                    \/ r.body.t = "unparseable"
            IN  failure =>
                    /\ "error" \in DOMAIN res
                    /\ "query" \notin DOMAIN res
                    /\ "count" \notin DOMAIN res
                    /\ "total_results" \notin DOMAIN res
                    /\ \A k \in DOMAIN res \ {"error"} : res[k] = JList(0)
                    /\ inv[i].tool = "search_images" =>
                          DOMAIN res = {"error", "images"}

\* C3: every vertical invocation that finds a credential issues exactly one
\* POST, to its own vertical's endpoint, whatever the upstream outcome; a
\* failed request is not retried, and after N such invocations the request
\* counter is N.
C3_OnePostPerInvocation ==
    LET endpoint ==
            [search_google |-> "https://google.serper.dev/search",
             search_images |-> "https://google.serper.dev/images",
             search_news |-> "https://google.serper.dev/news",
             search_places |-> "https://google.serper.dev/places",
             search_shopping |-> "https://google.serper.dev/shopping",
             search_videos |-> "https://google.serper.dev/videos"]
    IN  /\ posts = invoked
        /\ \A i \in Slots :
              IsVertical(i) /\ inv[i].cred \notin {None, Some("")} =>
                  /\ inv[i].nposts = 1
                  /\ HasSent(i)
                  /\ inv[i].sent.url = endpoint[inv[i].tool]

C3_Witness ==
    \E i \in Slots :
        /\ HasResp(i)
        /\ inv[i].resp.kind = "Timeout"
        /\ inv[i].nposts = 1
        /\ invoked = MaxCalls
        /\ posts = MaxCalls

\* C4 as stated: called with q alone, a vertical's payload is exactly q plus
\* the contract table's defaults: num=10 (search, images, news, shopping,
\* videos), autocorrect=true (search, images, news, videos), page=1 (search),
\* nothing for places; no location, gl, hl or tbs key.
C4_Original ==
    \A i \in Slots :
        HasSent(i) /\ Supplied(inv[i].kw) = {} =>
            LET t == inv[i].tool
                num == IF t # "search_places" THEN [num |-> 10] ELSE <<>>
                auto == IF t \in {"search_google", "search_images",
                                  "search_news", "search_videos"}
                        THEN [autocorrect |-> TRUE] ELSE <<>>
                page == IF t = "search_google" THEN [page |-> 1] ELSE <<>>
            IN  inv[i].sent.json = [q |-> inv[i].kw.q] @@ num @@ auto @@ page

\* C4 amended: called with q alone, a vertical's payload is exactly q plus
\* num=10 (search, images, news, shopping, videos), autocorrect=true and
\* page=1 (search only), nothing for places; no location, gl, hl or tbs key.
C4_Amended ==
    \A i \in Slots :
        HasSent(i) /\ Supplied(inv[i].kw) = {} =>
            LET t == inv[i].tool
                num == IF t # "search_places" THEN [num |-> 10] ELSE <<>>
                auto == IF t = "search_google"
                        THEN [autocorrect |-> TRUE, page |-> 1] ELSE <<>>
            IN  inv[i].sent.json = [q |-> inv[i].kw.q] @@ num @@ auto

C4_Witness ==
    \E i \in Slots :
        /\ HasSent(i)
        /\ inv[i].tool = "search_images"
        /\ Supplied(inv[i].kw) = {}
        /\ inv[i].sent.json = [q |-> "cat", num |-> 10]

\* C5 as stated: for every optional field the contract table lists for the
\* vertical, a supplied value is carried verbatim by the payload, and an
\* omitted field without default has no key in it.
C5_Original ==
    \A i \in Slots :
        HasSent(i) =>
            LET t == inv[i].tool
                kw == inv[i].kw
                json == inv[i].sent.json
                table ==
                    {"location", "gl", "hl"}
                    \cup (IF t # "search_places" THEN {"num"} ELSE {})
                    \cup (IF t \in {"search_news", "search_shopping"}
                          THEN {"tbs"} ELSE {})
                    \cup (IF t \in {"search_google", "search_images",
                                    "search_news", "search_videos"}
                          THEN {"autocorrect"} ELSE {})
                    \cup (IF t = "search_google" THEN {"page"} ELSE {})
                supplied(p) == p \in DOMAIN kw /\ kw[p] # None
            IN  \A p \in table :
                    /\ supplied(p) => p \in DOMAIN json /\ json[p] = kw[p][1]
                    /\ ~supplied(p) /\ p \in {"location", "gl", "hl", "tbs"}
                          => p \notin DOMAIN json

\* C5 amended: for every optional field the handler's signature accepts, a
\* supplied num, autocorrect or page is carried verbatim, and a supplied
\* non-empty location, gl, hl or tbs is carried verbatim; a location, gl, hl
\* or tbs that is omitted or supplied as the empty string has no key in the
\* payload, and a field the handler does not accept never has one.
C5_Amended ==
    \A i \in Slots :
        HasSent(i) =>
            LET kw == inv[i].kw
                json == inv[i].sent.json
                strs == {"location", "gl", "hl", "tbs"}
            IN  /\ \A p \in (DOMAIN kw \ {"q"}) \ strs :
                      kw[p] # None => p \in DOMAIN json /\ json[p] = kw[p][1]
                /\ \A p \in (DOMAIN kw) \cap strs :
                      IF kw[p] # None /\ kw[p][1] # ""
                      THEN p \in DOMAIN json /\ json[p] = kw[p][1]
                      ELSE p \notin DOMAIN json
                /\ DOMAIN json \subseteq DOMAIN kw

C5_Witness ==
    \E i \in Slots :
        /\ HasSent(i)
        /\ inv[i].tool = "search_news"
        /\ inv[i].kw.tbs = Some("qdr:d")
        /\ inv[i].sent.json = [q |-> "cat", num |-> 10, tbs |-> "qdr:d"]

C9_Original ==
    \A i \in Slots :
        IsVertical(i) =>
            /\ HasSent(i) =>
                  "q" \in DOMAIN inv[i].sent.json /\ inv[i].sent.json.q # ""
            /\ inv[i].kw.q = "" =>
                  /\ inv[i].nposts = 0
                  /\ inv[i].pc = "done"
                  /\ "error" \in DOMAIN inv[i].result

\* C9 amended: every outbound payload carries the key q with exactly the
\* caller's query term; the handlers do not validate q, so with a credential
\* present an invocation whose q is the empty string is forwarded upstream
\* with q = "" like any other.
C9_Amended ==
    \A i \in Slots :
        IsVertical(i) =>
            /\ HasSent(i) =>
                  /\ "q" \in DOMAIN inv[i].sent.json
                  /\ inv[i].sent.json.q = inv[i].kw.q
            /\ env \notin {None, Some("")} => HasSent(i) /\ inv[i].nposts = 1

C9_Witness ==
    \E i \in Slots :
        /\ HasSent(i)
        /\ inv[i].pc = "waiting"
        /\ inv[i].tool = "search_places"
        /\ inv[i].kw.q = ""
        /\ inv[i].sent.json = [q |-> ""]

\* C10: a vertical's result has an `error` key if and only if the credential
\* is missing or the upstream call failed (non-2xx status, transport fault,
\* timeout, body that is not JSON); a 2xx answer with any JSON body gives a
\* result without `error`.
C10_ErrorIffFailure ==
    \A i \in Slots :
        IsVertical(i) /\ inv[i].pc = "done" =>
            LET missing == inv[i].cred \in {None, Some("")}
                failed ==
                    /\ HasResp(i)
                    /\ \/ inv[i].resp.kind # "http"
                       \/ inv[i].resp.status < 200
                       \/ inv[i].resp.status > 299
                       \/ inv[i].resp.body.t = "unparseable"
            IN  "error" \in DOMAIN inv[i].result <=> (missing \/ failed)

C8_Independent ==
    \A i \in Slots :
        inv[i].pc # "idle" =>
            LET t == inv[i].tool
                kw == inv[i].kw
            IN  IF t = "get_search_info"
                THEN inv[i].result = SearchInfo /\ inv[i].nposts = 0
                ELSE IF inv[i].cred \in {None, Some("")}
                THEN /\ inv[i].result
                          = ErrorResult(t, MissingKeyMessage)
                     /\ inv[i].nposts = 0
                ELSE /\ inv[i].sent.json = BuildPayload(t, kw)
                     /\ inv[i].sent.key = inv[i].cred[1]
                     /\ inv[i].sent.url = Url(t)
                     /\ inv[i].nposts = 1
                     /\ inv[i].pc = "done" =>
                            inv[i].result = Finish(t, kw, inv[i].resp)

C8_Witness ==
    \E i, j \in Slots :
        /\ i # j
        /\ HasResp(i)
        /\ inv[i].tool = "search_images"
        /\ "count" \in DOMAIN inv[i].result
        /\ inv[i].result.count = MaxList
        /\ inv[j].pc = "waiting"
        /\ inv[j].tool = "search_places"
        /\ inv[j].cred # inv[i].cred

====
